---- MODULE Spec2Model ----
(***************************************************************************)
(* sqldbm: a dbm-style mapping over sqlite3 (src/sqldbm.py).               *)
(*                                                                         *)
(* The model follows one caller process that opens a handle (SqliteDbm)    *)
(* on one path, takes table views (SqliteDbmTable) from it and calls the   *)
(* mapping operations.  The sqlite3 engine is modelled by what the module  *)
(* relies on: the committed file, the connection's working copy (the file  *)
(* plus the pending transaction), Python's implicit BEGIN before a DML     *)
(* statement, DDL that autocommits outside a transaction, read-only        *)
(* connections, and closed connections that refuse every statement.        *)
(***************************************************************************)
EXTENDS Integers, Sequences, FiniteSets, TLC

\* ------------------------------------------------------------------ domains

\* Table names the caller asks for.
Tables == {"t1", "t2"}

\* Keys (str) the caller uses.
Keys == {"a", "b"}

\* The keys the caller writes or deletes in each table: both keys in "t1", the
\* shared key "a" in "t2".  Lookups use every key on every table.
KeysOf(table_name) == IF table_name = "t1" THEN Keys ELSE {"a"}

\* Values are byte strings; MaxValueLen bounds their length.
MaxValueLen == 1
Byte == {104}
Values == UNION {[1..n -> Byte] : n \in 0..MaxValueLen}

\* class Mode
OPEN == "rw"
OPEN_CREATE == "rwc"
OPEN_CREATE_NEW == "rwcn"
OPEN_READ_ONLY == "ro"
Mode == {OPEN, OPEN_CREATE, OPEN_CREATE_NEW, OPEN_READ_ONLY}

\* A row of the schema (Key TEXT PRIMARY KEY UNIQUE NOT NULL, Value BLOB).
Rows == [Key : Keys, Value : Values]

\* ------------------------------------------------------------------ state

VARIABLES
    disk,            \* the file at the path: exists, and its committed tables and indexes
    handle,          \* the caller's SqliteDbm: "absent", "open" (self.db set), "closed" (self.db is None)
    readonly,        \* the open connection was made with mode=ro
    work,            \* what the connection sees: the file plus its pending transaction
    in_transaction,  \* sqlite3.Connection.in_transaction
    tables,          \* SqliteDbm.tables, the handle's view cache (names cached)
    views,           \* per table name, the view the caller holds: "none", "live", "closed"
    ret,             \* what the last call returned or raised
    scope,           \* "with" inside a with-block over the handle, else "none"
    gen,             \* the caller's generator from __iter__, when one is suspended at its yield
    cursors          \* cursors taken by cursor(db) and not yet closed by it

vars == <<disk, handle, readonly, work, in_transaction, tables, views, ret,
          scope, gen, cursors>>

\* ------------------------------------------------------------------ results

NoKeys == [k \in {} |-> 0]

Returned(kind, bytes, num, keylist) ==
    [exc |-> "", kind |-> kind, bytes |-> bytes, num |-> num, keys |-> keylist]

\* The last call (its name and its arguments) with its outcome.
Call(name, args, outcome) == [call |-> name, args |-> args, out |-> outcome]

RetNone == Returned("None", <<>>, 0, NoKeys)
RetBytes(v) == Returned("bytes", v, 0, NoKeys)
RetBool(b) == Returned("bool", <<>>, IF b THEN 1 ELSE 0, NoKeys)
RetInt(n) == Returned("int", <<>>, n, NoKeys)
RetList(bag) == Returned("list", <<>>, 0, bag)
RetObject == Returned("object", <<>>, 0, NoKeys)
Raised(e) == [exc |-> e, kind |-> "raise", bytes |-> <<>>, num |-> 0, keys |-> NoKeys]

\* yield r[0]: one key
RetKey(k) == Returned("str", <<>>, 0, (k :> 1))

\* ------------------------------------------------------------------ the engine

NoFile == [exists |-> FALSE, tabs |-> [t \in {} |-> {}], idx |-> {}]

\* The database a connection to the file starts from.
FileDb(f) == [tabs |-> f.tabs, idx |-> f.idx]

\* commit: the working copy becomes the file's contents.
Committed(w) == [exists |-> TRUE, tabs |-> w.tabs, idx |-> w.idx]

IndexName(table_name) == table_name \o "_key"

\* CREATE TABLE IF NOT EXISTS name (...): tables and indexes share one namespace.
CreateTableFailsIfExists(d, name, ro) ==
    name \in DOMAIN d.tabs \/ ro \/ name \in d.idx

CreateTableFails(d, name, ro) ==
    name \notin DOMAIN d.tabs /\ (ro \/ name \in d.idx)

CreateTable(d, name) ==
    IF name \in DOMAIN d.tabs THEN d
    ELSE [d EXCEPT !.tabs = (name :> {}) @@ @]

\* CREATE INDEX IF NOT EXISTS name_key ON name(Key)
CreateIndexFails(d, iname, ro) ==
    iname \notin d.idx /\ (ro \/ iname \in DOMAIN d.tabs)

CreateIndex(d, iname) == [d EXCEPT !.idx = @ \cup {iname}]

\* SELECT COUNT(*) FROM t WHERE Key = ?
SelectCountWhere(rows, key) == Cardinality({r \in rows : r.Key = key})

\* SELECT COUNT(*) FROM t
SelectCount(rows) == Cardinality(rows)

\* SELECT Value FROM t WHERE Key = ?  -- the rows that match
SelectValue(rows, key) == {r \in rows : r.Key = key}

\* INSERT INTO t (Key, Value) VALUES (?, ?) ON CONFLICT(Key) DO UPDATE SET Value=excluded.Value
InsertIgnore(rows, key, value) ==
    IF \E r \in rows : r.Key = key THEN rows
    ELSE rows \cup {[Key |-> key, Value |-> value]}

InsertPlain(rows, key, value) == rows \cup {[Key |-> key, Value |-> value]}

UpsertAlone(rows, key, value) == {[Key |-> key, Value |-> value]}

Upsert(rows, key, value) ==
    IF \E r \in rows : r.Key = key
    THEN {IF r.Key = key THEN [r EXCEPT !.Value = value] ELSE r : r \in rows}
    ELSE rows \cup {[Key |-> key, Value |-> value]}

\* DELETE FROM t WHERE Key = ?
DeleteAll(rows, key) == {}

Delete(rows, key) == {r \in rows : r.Key # key}

\* SELECT Key FROM t, fetched to the end: each row's key once (order is the engine's).
SelectKeys(rows) ==
    [k \in {r.Key : r \in rows} |-> Cardinality({r \in rows : r.Key = k})]

\* A statement on table_name touches that table of the database and no other.
OnEveryTable(d, table_name, rows) == [d EXCEPT !.tabs = [t \in DOMAIN d.tabs |-> rows]]

OnTable(d, table_name, rows) == [d EXCEPT !.tabs[table_name] = rows]

\* ------------------------------------------------------------------ cursor

\* cursor(db): cur = db.cursor() ... finally: cur.close()
cursor_enter(n) == n + 1

cursor_leak(n) == n

cursor_exit(n) == n - 1

\* A statement run inside "with cursor(self.db) as cur": the cursor is taken
\* and, whether the statement returns or raises, closed again.
WithCursor(n) == cursor_exit(cursor_enter(n))

\* ------------------------------------------------------------------ SqliteDbmTable

\* __contains__: count == 1
contains(rows, item) == SelectCountWhere(rows, item) = 1

\* __len__
len(rows) == SelectCount(rows)

\* __getitem__: fetchone() of the matching rows, v[0] or None
getitem_KeyError(rows, item) ==
    IF SelectValue(rows, item) # {}
    THEN RetBytes((CHOOSE r \in SelectValue(rows, item) : TRUE).Value)
    ELSE Raised("KeyError")

getitem(rows, item) ==
    IF SelectValue(rows, item) # {}
    THEN RetBytes((CHOOSE r \in SelectValue(rows, item) : TRUE).Value)
    ELSE RetNone

\* __iter__ run to its end: fetchone() until it gives None, yielding r[0]
iter_if(rows) ==
    LET all == SelectKeys(rows)
    IN [k \in {x \in DOMAIN all : x = CHOOSE y \in DOMAIN all : TRUE} |-> all[k]]

iter(rows) == SelectKeys(rows)

\* keys(): list(k for k in self)
keys(rows) == iter(rows)

\* The rows a live view of table_name reads.
ViewRows(table_name) == work.tabs[table_name]

\* What a call on the caller's view of table_name gives now: cursor(self.db)
\* raises on a closed connection, before any statement runs.
ViewContains(table_name, item) ==
    IF views[table_name] = "closed" THEN Raised("ProgrammingError")
    ELSE RetBool(contains(ViewRows(table_name), item))

ViewLen(table_name) ==
    IF views[table_name] = "closed" THEN Raised("ProgrammingError")
    ELSE RetInt(len(ViewRows(table_name)))

ViewGet(table_name, item) ==
    IF views[table_name] = "closed" THEN Raised("ProgrammingError")
    ELSE getitem(ViewRows(table_name), item)

ViewKeys(table_name) ==
    IF views[table_name] = "closed" THEN Raised("ProgrammingError")
    ELSE RetList(keys(ViewRows(table_name)))

\* for key in view: the keys yielded by a loop that runs to the end
ViewIter(table_name) ==
    IF views[table_name] = "closed" THEN Raised("ProgrammingError")
    ELSE RetList(iter(ViewRows(table_name)))

\* ------------------------------------------------------------------ SqliteDbm

\* close(): self.db.commit() before self.db.close()
close_without_commit(f, w) == f

close_commit(f, w) == Committed(w)

\* sync(): self.db.commit()
sync_without_commit(f, w) == f

sync_commit(f, w) == Committed(w)

\* open(): OPEN_CREATE_NEW unlinks the file at the path if there is one ...
open_keep(mode, f) == f

open_unlink_create(mode, f) ==
    IF mode \in {OPEN_CREATE, OPEN_CREATE_NEW} /\ f.exists THEN NoFile ELSE f

open_unlink(mode, f) ==
    IF mode = OPEN_CREATE_NEW /\ f.exists THEN NoFile ELSE f

\* ... and connects with OPEN_CREATE
open_mode(mode) == IF mode = OPEN_CREATE_NEW THEN OPEN_CREATE ELSE mode

\* self.db.close(): every view of the connection now refers to a closed connection.
KeepViews(vs) == vs

CloseViews(vs) == [t \in Tables |-> IF vs[t] = "live" THEN "closed" ELSE vs[t]]

\* sqlite3.connect(f'file:{db_path}?mode={mode}', uri=True): mode=ro gives a
\* connection that refuses every write.
connect_ignores_mode(mode) == FALSE

connect_readonly(mode) == mode = OPEN_READ_ONLY

\* __exit__: close() is called whatever exc_type is, and close() commits.
exit_rollback_on_error(exc, f, w) == IF exc # "" THEN f ELSE close_commit(f, w)

exit_close(exc, f, w) == close_commit(f, w)

\* How a with-block is left: "" by running off its end, else by this exception.
BlockExits == {"", "ValueError"}

\* ------------------------------------------------------------------ generator

\* No generator of __iter__ is suspended.
NoGen == [state |-> "none", table |-> "", seen |-> {}, dirty |-> FALSE, conn |-> ""]

\* The generator of __iter__ suspended at its yield, inside "with cursor(...)":
\* `seen` are the keys it has yielded, `dirty` whether the table was written
\* since its SELECT ran, `conn` the state of the connection it reads from.
Suspended(table_name, seen, dirty) ==
    [state |-> "suspended", table |-> table_name, seen |-> seen, dirty |-> dirty,
     conn |-> "live"]

\* A write to table_name while a generator is reading it.
Touch(g, table_name) ==
    IF g.state = "suspended" /\ g.conn = "live" /\ g.table = table_name
    THEN [g EXCEPT !.dirty = TRUE] ELSE g

\* self.db.close() under a suspended generator
Disconnect(g) == IF g.state = "suspended" THEN [g EXCEPT !.conn = "closed"] ELSE g

\* ------------------------------------------------------------------ initial state

Init ==
    /\ disk = NoFile
    /\ handle = "absent"
    /\ readonly = FALSE
    /\ work = FileDb(NoFile)
    /\ in_transaction = FALSE
    /\ tables = {}
    /\ views = [t \in Tables |-> "none"]
    /\ ret = Call("start", <<>>, RetNone)
    /\ scope = "none"
    /\ gen = NoGen
    /\ cursors = 0

\* ------------------------------------------------------------------ operations

\* sqldbm.open(path, mode) and SqliteDbm.__init__; the caller has no open handle.
Open(mode) ==
    /\ handle # "open"
    /\ scope = "none"
    /\ LET unlinked == open_unlink(mode, disk)
           m == open_mode(mode)
       IN \* sqlite3.connect: mode=rwc makes the file, rw and ro need it to exist
          IF m = OPEN_CREATE \/ unlinked.exists
          THEN /\ disk' = [unlinked EXCEPT !.exists = TRUE]
               /\ handle' = "open"
               /\ readonly' = connect_readonly(m)
               /\ work' = FileDb(unlinked)
               /\ in_transaction' = FALSE
               /\ tables' = {}
               /\ ret' = Call("open", <<mode>>, RetObject)
               /\ UNCHANGED views
          ELSE /\ ret' = Call("open", <<mode>>, Raised("OperationalError"))
               /\ UNCHANGED <<disk, handle, readonly, work, in_transaction, tables, views>>
    /\ UNCHANGED <<scope, gen, cursors>>

\* SqliteDbm.__getitem__(table_name) with SqliteDbmTable.__init__
Table(table_name) ==
    /\ handle # "absent"
    /\ IF handle = "closed"
       THEN \* SqliteDbmTable(None, name): None has no cursor()
            /\ ret' = Call("table", <<table_name>>, Raised("AttributeError"))
            /\ UNCHANGED <<disk, handle, readonly, work, in_transaction, tables, views>>
            /\ UNCHANGED cursors
       ELSE IF table_name \in tables
       THEN /\ ret' = Call("table", <<table_name>>, RetObject)
            /\ views' = [views EXCEPT ![table_name] = "live"]
            /\ UNCHANGED <<disk, handle, readonly, work, in_transaction, tables>>
            /\ UNCHANGED cursors
       ELSE IF CreateTableFails(work, table_name, readonly)
       THEN /\ ret' = Call("table", <<table_name>>, Raised("OperationalError"))
            /\ UNCHANGED <<disk, handle, readonly, work, in_transaction, tables, views>>
            /\ cursors' = WithCursor(cursors)
       ELSE LET d1 == CreateTable(work, table_name)
                failed == CreateIndexFails(d1, IndexName(table_name), readonly)
                d2 == IF failed THEN d1 ELSE CreateIndex(d1, IndexName(table_name))
            IN /\ work' = d2
               \* DDL outside a transaction is committed at once
               /\ disk' = IF in_transaction THEN disk ELSE Committed(d2)
               /\ ret' = Call("table", <<table_name>>,
                             IF failed THEN Raised("OperationalError") ELSE RetObject)
               /\ views' = IF failed THEN views ELSE [views EXCEPT ![table_name] = "live"]
               /\ UNCHANGED <<handle, readonly, in_transaction, tables>>
               /\ cursors' = WithCursor(cursors)
    /\ UNCHANGED <<scope, gen>>

\* A read through a view: db.cursor() raises on a closed connection before any
\* cursor exists, else the read runs inside "with cursor(self.db)".
ReadCursor(table_name) ==
    /\ cursors' = IF views[table_name] = "closed" THEN cursors ELSE WithCursor(cursors)
    /\ UNCHANGED <<scope, gen>>

\* SqliteDbmTable.__contains__
Contains(table_name, item) ==
    /\ views[table_name] # "none"
    /\ ret' = Call("contains", <<table_name, item>>, ViewContains(table_name, item))
    /\ UNCHANGED <<disk, handle, readonly, work, in_transaction, tables, views>>
    /\ ReadCursor(table_name)

\* SqliteDbmTable.__len__
Length(table_name) ==
    /\ views[table_name] # "none"
    /\ ret' = Call("len", <<table_name>>, ViewLen(table_name))
    /\ UNCHANGED <<disk, handle, readonly, work, in_transaction, tables, views>>
    /\ ReadCursor(table_name)

\* SqliteDbmTable.__getitem__
GetItem(table_name, item) ==
    /\ views[table_name] # "none"
    /\ ret' = Call("get", <<table_name, item>>, ViewGet(table_name, item))
    /\ UNCHANGED <<disk, handle, readonly, work, in_transaction, tables, views>>
    /\ ReadCursor(table_name)

\* SqliteDbmTable.keys
KeysList(table_name) ==
    /\ views[table_name] # "none"
    /\ ret' = Call("keys", <<table_name>>, ViewKeys(table_name))
    /\ UNCHANGED <<disk, handle, readonly, work, in_transaction, tables, views>>
    /\ ReadCursor(table_name)

\* SqliteDbmTable.__iter__, as a loop over the view that runs to the end
Iterate(table_name) ==
    /\ views[table_name] # "none"
    /\ ret' = Call("iter", <<table_name>>, ViewIter(table_name))
    /\ UNCHANGED <<disk, handle, readonly, work, in_transaction, tables, views>>
    /\ ReadCursor(table_name)

\* SqliteDbmTable.__setitem__
SetItemAutocommit(table_name, key, value) ==
    /\ views[table_name] # "none"
    /\ IF views[table_name] = "closed"
       THEN /\ ret' = Call("set", <<table_name, key, value>>, Raised("ProgrammingError"))
            /\ UNCHANGED <<disk, work, in_transaction, gen, cursors>>
       ELSE /\ cursors' = WithCursor(cursors)
            /\ UNCHANGED in_transaction
            /\ IF readonly
               THEN /\ ret' = Call("set", <<table_name, key, value>>, Raised("OperationalError"))
                    /\ UNCHANGED <<disk, work, gen>>
               ELSE /\ work' = OnTable(work, table_name,
                                       Upsert(ViewRows(table_name), key, value))
                    /\ disk' = Committed(work')
                    /\ gen' = Touch(gen, table_name)
                    /\ ret' = Call("set", <<table_name, key, value>>, RetNone)
    /\ UNCHANGED <<handle, readonly, tables, views, scope>>

SetItem(table_name, key, value) ==
    /\ views[table_name] # "none"
    /\ IF views[table_name] = "closed"
       THEN /\ ret' = Call("set", <<table_name, key, value>>, Raised("ProgrammingError"))
            /\ UNCHANGED <<work, in_transaction, gen, cursors>>
       ELSE \* sqlite3 begins a transaction before the INSERT runs
            /\ in_transaction' = TRUE
            /\ cursors' = WithCursor(cursors)
            /\ IF readonly
               THEN /\ ret' = Call("set", <<table_name, key, value>>, Raised("OperationalError"))
                    /\ UNCHANGED <<work, gen>>
               ELSE /\ work' = OnTable(work, table_name,
                                       Upsert(ViewRows(table_name), key, value))
                    /\ gen' = Touch(gen, table_name)
                    /\ ret' = Call("set", <<table_name, key, value>>, RetNone)
    /\ UNCHANGED <<disk, handle, readonly, tables, views, scope>>

\* SqliteDbmTable.__delitem__
DelItem(table_name, key) ==
    /\ views[table_name] # "none"
    /\ IF views[table_name] = "closed"
       THEN /\ ret' = Call("delete", <<table_name, key>>, Raised("ProgrammingError"))
            /\ UNCHANGED <<work, in_transaction, gen, cursors>>
       ELSE \* sqlite3 begins a transaction before the DELETE runs
            /\ in_transaction' = TRUE
            /\ cursors' = WithCursor(cursors)
            /\ IF readonly
               THEN /\ ret' = Call("delete", <<table_name, key>>, Raised("OperationalError"))
                    /\ UNCHANGED <<work, gen>>
               ELSE /\ work' = OnTable(work, table_name,
                                       Delete(ViewRows(table_name), key))
                    /\ gen' = Touch(gen, table_name)
                    /\ ret' = Call("delete", <<table_name, key>>, RetNone)
    /\ UNCHANGED <<disk, handle, readonly, tables, views, scope>>

\* SqliteDbm.sync
SyncUnguarded ==
    /\ handle # "absent"
    /\ IF handle = "open"
       THEN /\ disk' = sync_commit(disk, work)
            /\ in_transaction' = FALSE
            /\ ret' = Call("sync", <<>>, RetNone)
       ELSE /\ ret' = Call("sync", <<>>, Raised("AttributeError"))
            /\ UNCHANGED <<disk, in_transaction>>
    /\ UNCHANGED <<handle, readonly, work, tables, views, scope, gen, cursors>>

Sync ==
    /\ handle # "absent"
    /\ IF handle = "open"
       THEN /\ disk' = sync_commit(disk, work)
            /\ in_transaction' = FALSE
       ELSE UNCHANGED <<disk, in_transaction>>
    /\ ret' = Call("sync", <<>>, RetNone)
    /\ UNCHANGED <<handle, readonly, work, tables, views, scope, gen, cursors>>

\* SqliteDbm.close
Close ==
    /\ handle # "absent"
    /\ IF handle = "open"
       THEN /\ disk' = close_commit(disk, work)
            /\ in_transaction' = FALSE
            /\ views' = CloseViews(views)
            /\ gen' = Disconnect(gen)
       ELSE UNCHANGED <<disk, in_transaction, views, gen>>
    /\ handle' = "closed"
    /\ ret' = Call("close", <<>>, RetNone)
    /\ UNCHANGED <<readonly, work, tables, scope, cursors>>

\* The process ends with the handle still open and outside any with-block: the
\* connection goes without a commit and the pending transaction is rolled back.
Abandon ==
    /\ handle = "open"
    /\ scope = "none"
    /\ handle' = "absent"
    /\ readonly' = FALSE
    /\ work' = FileDb(disk)
    /\ in_transaction' = FALSE
    /\ tables' = {}
    /\ views' = [t \in Tables |-> "none"]
    /\ ret' = Call("exit", <<>>, RetNone)
    /\ gen' = NoGen
    /\ cursors' = 0
    /\ UNCHANGED <<disk, scope>>

Next ==
    \/ \E mode \in Mode : Open(mode)
    \/ \E t \in Tables : Table(t)
    \/ \E t \in Tables, k \in Keys : Contains(t, k)
    \/ \E t \in Tables : Length(t)
    \/ \E t \in Tables, k \in Keys : GetItem(t, k)
    \/ \E t \in Tables : KeysList(t)
    \/ \E t \in Tables : Iterate(t)
    \/ \E t \in Tables : \E k \in KeysOf(t), v \in Values : SetItem(t, k, v)
    \/ \E t \in Tables : \E k \in KeysOf(t) : DelItem(t, k)
    \/ Sync
    \/ Close
    \/ Abandon

Spec == Init /\ [][Next]_vars

\* ------------------------------------------------------------------ with-block

\* SqliteDbm.__enter__: the caller's with-block over the handle begins.
Enter ==
    /\ handle # "absent"
    /\ scope = "none"
    /\ scope' = "with"
    /\ ret' = Call("__enter__", <<>>, RetObject)
    /\ UNCHANGED <<disk, handle, readonly, work, in_transaction, tables, views,
                   gen, cursors>>

\* __exit__ that does nothing
ExitWithoutClose(exc) ==
    /\ scope = "with"
    /\ scope' = "none"
    /\ ret' = Call("__exit__", <<exc>>, IF exc = "" THEN RetNone ELSE Raised(exc))
    /\ UNCHANGED <<disk, handle, readonly, work, in_transaction, tables, views,
                   gen, cursors>>

\* SqliteDbm.__exit__: control leaves the with-block, by its end (exc = "") or
\* by an exception.  It calls close() when self.db is not None and returns
\* None, so that the exception goes on to the caller.
Exit(exc) ==
    /\ scope = "with"
    /\ scope' = "none"
    /\ IF handle = "open"
       THEN /\ disk' = exit_close(exc, disk, work)
            /\ in_transaction' = FALSE
            /\ views' = CloseViews(views)
            /\ gen' = Disconnect(gen)
            /\ handle' = "closed"
       ELSE UNCHANGED <<disk, in_transaction, views, gen, handle>>
    /\ ret' = Call("__exit__", <<exc>>, IF exc = "" THEN RetNone ELSE Raised(exc))
    /\ UNCHANGED <<readonly, work, tables, cursors>>

NextWith ==
    \/ Next
    \/ Enter
    \/ \E exc \in BlockExits : Exit(exc)

SpecWith == Init /\ [][NextWith]_vars

\* ------------------------------------------------------------------ iteration by steps

\* Keys of the rows a SELECT Key FROM table_name still has to give.
Remaining(g) == DOMAIN SelectKeys(work.tabs[g.table]) \ g.seen

\* The first next() on iter(view): the generator body runs from its start.  On
\* a closed connection db.cursor() raises; on an empty table the loop ends and
\* the with-statement closes the cursor; else the generator stops at its yield
\* with the cursor open.  One generator at a time.
IterStart(table_name) ==
    /\ gen.state = "none"
    /\ views[table_name] # "none"
    /\ IF views[table_name] = "closed"
       THEN /\ ret' = Call("next", <<table_name>>, Raised("ProgrammingError"))
            /\ UNCHANGED <<gen, cursors>>
       ELSE IF ViewRows(table_name) = {}
       THEN /\ ret' = Call("next", <<table_name>>, Raised("StopIteration"))
            /\ cursors' = WithCursor(cursors)
            /\ UNCHANGED gen
       ELSE \E k \in DOMAIN SelectKeys(ViewRows(table_name)) :
            /\ ret' = Call("next", <<table_name>>, RetKey(k))
            /\ gen' = Suspended(table_name, {k}, FALSE)
            /\ cursors' = cursor_enter(cursors)
    /\ UNCHANGED <<disk, handle, readonly, work, in_transaction, tables, views, scope>>

\* A later next(): cur.fetchone() raises if the connection was closed in the
\* meantime, gives another row, or gives None and the loop ends.  Which rows a
\* statement still gives after the table was written under it is the engine's
\* choice: any row not yet given, or the end.
IterResume ==
    /\ gen.state = "suspended"
    /\ \/ /\ gen.conn = "closed"
          /\ ret' = Call("next", <<gen.table>>, Raised("ProgrammingError"))
          /\ gen' = NoGen
          /\ cursors' = cursor_exit(cursors)
       \/ /\ gen.conn = "live"
          /\ \E k \in Remaining(gen) :
                /\ ret' = Call("next", <<gen.table>>, RetKey(k))
                /\ gen' = [gen EXCEPT !.seen = @ \cup {k}]
                /\ UNCHANGED cursors
       \/ /\ gen.conn = "live"
          /\ Remaining(gen) = {} \/ gen.dirty
          /\ ret' = Call("next", <<gen.table>>, Raised("StopIteration"))
          /\ gen' = NoGen
          /\ cursors' = cursor_exit(cursors)
    /\ UNCHANGED <<disk, handle, readonly, work, in_transaction, tables, views, scope>>

\* The caller leaves its loop early or drops the generator: GeneratorExit is
\* raised at the yield and the with-statement closes the cursor.
IterDrop ==
    /\ gen.state = "suspended"
    /\ gen' = NoGen
    /\ cursors' = cursor_exit(cursors)
    /\ ret' = Call("drop", <<gen.table>>, RetNone)
    /\ UNCHANGED <<disk, handle, readonly, work, in_transaction, tables, views, scope>>

NextIter ==
    \/ Next
    \/ \E t \in Tables : IterStart(t)
    \/ IterResume
    \/ IterDrop

SpecIter == Init /\ [][NextIter]_vars

\* ------------------------------------------------------------------ properties

\* The last call was `name` and it returned (did not raise).  A step that ends
\* with ret'.call = name is a step of that operation: no other writes its name.
Returns(name) == ret.call = name /\ ret.out.exc = ""

\* No row of table_name in database d has this key.
Absent(d, table_name, key) == SelectValue(d.tabs[table_name], key) = {}

\* C1: right after set(k, v) returns on a view of an open read/write handle,
\* get(k) returns v and contains(k) returns true.
C1_SetThenGet ==
    Returns("set") =>
        /\ ViewGet(ret.args[1], ret.args[2]) = RetBytes(ret.args[3])
        /\ ViewContains(ret.args[1], ret.args[2]) = RetBool(TRUE)

\* A set of a non-empty value has returned and get gives that value back.
C1_Witness ==
    /\ Returns("set")
    /\ ~readonly /\ handle = "open"
    /\ ret.args[3] # <<>>
    /\ ViewGet(ret.args[1], ret.args[2]) = RetBytes(ret.args[3])

\* In every table of database d each key has at most one row.
UniqueKeys(d) ==
    \A t \in DOMAIN d.tabs : \A r1, r2 \in d.tabs[t] : r1.Key = r2.Key => r1 = r2

\* C2: a set on a key that is present makes get return the new value and keeps
\* length() what it was, and no table ever holds two rows with one key.
C2_Overwrite ==
    /\ [](UniqueKeys(work) /\ UniqueKeys(disk))
    /\ [][\A t \in Tables, k \in Keys, v \in Values :
            (Returns("set")' /\ ret'.args = <<t, k, v>> /\ ~Absent(work, t, k))
            => /\ ViewGet(t, k)' = RetBytes(v)
               /\ ViewLen(t)' = ViewLen(t)]_vars

\* A set has replaced the committed value of a key by another one: one row, new value.
C2_Witness ==
    /\ Returns("set")
    /\ ret.args[1] \in DOMAIN disk.tabs
    /\ \E r \in disk.tabs[ret.args[1]] : r.Key = ret.args[2] /\ r.Value # ret.args[3]
    /\ ViewGet(ret.args[1], ret.args[2]) = RetBytes(ret.args[3])
    /\ ViewLen(ret.args[1]) = RetInt(Cardinality(disk.tabs[ret.args[1]]))

\* C3 as stated: after a delete, contains is false; delete of an absent key on any
\* view of an open handle does not raise and changes no row.
C3_Original ==
    /\ [](Returns("delete") => ViewContains(ret.args[1], ret.args[2]) = RetBool(FALSE))
    /\ [][(ret'.call = "delete" /\ views[ret'.args[1]] = "live"
                /\ Absent(work, ret'.args[1], ret'.args[2]))
            => (ret'.out = RetNone /\ work' = work /\ disk' = disk)]_vars

\* C3 amended: the same on a handle opened read/write (on a read-only handle
\* delete raises, whether the key is present or not).
C3_Delete ==
    /\ [](Returns("delete") => ViewContains(ret.args[1], ret.args[2]) = RetBool(FALSE))
    /\ [][(ret'.call = "delete" /\ views[ret'.args[1]] = "live" /\ ~readonly
                /\ Absent(work, ret'.args[1], ret'.args[2]))
            => (ret'.out = RetNone /\ work' = work /\ disk' = disk)]_vars

\* A delete has returned on a table that keeps another row, and the key is gone
\* from the view while the file still has it.
C3_Witness ==
    /\ Returns("delete")
    /\ ViewContains(ret.args[1], ret.args[2]) = RetBool(FALSE)
    /\ ViewLen(ret.args[1]) = RetInt(1)
    /\ ret.args[1] \in DOMAIN disk.tabs
    /\ ~Absent(disk, ret.args[1], ret.args[2])

\* C4: get of a key with no row, on a view of an open handle, returns None, does
\* not raise and changes no row.
C4_GetMissing ==
    [][(ret'.call = "get" /\ views[ret'.args[1]] = "live"
            /\ Absent(work, ret'.args[1], ret'.args[2]))
        => (ret'.out = RetNone /\ work' = work /\ disk' = disk)]_vars

\* get returned None for a key that was written, committed and then deleted.
C4_Witness ==
    /\ Returns("get")
    /\ ret.out = RetNone
    /\ ret.args[1] \in DOMAIN disk.tabs
    /\ ~Absent(disk, ret.args[1], ret.args[2])

\* C5: close commits what the handle held, nothing touches the file while the
\* handle is closed, a handle opened with OPEN after it starts from the file,
\* a connection without pending writes sees exactly the file, and taking a view
\* of a table that exists changes no row: so the new handle sees, in every
\* table, the keys and values the closed one held.
C5_Persistence ==
    /\ []((handle = "open" /\ ~in_transaction) => work = FileDb(disk))
    /\ [][/\ (ret'.call = "close" /\ handle = "open") => FileDb(disk') = work
          /\ (handle = "closed" /\ handle' = "closed") => disk' = disk
          /\ (handle = "closed" /\ ret'.call = "open" /\ ret'.args = <<OPEN>>)
             => (Returns("open")' /\ disk' = disk /\ work' = FileDb(disk))
          /\ \A t \in Tables :
               (ret'.call = "table" /\ ret'.args = <<t>> /\ handle = "open"
                   /\ t \in DOMAIN work.tabs)
               => (Returns("table")' /\ work' = work /\ disk'.tabs = disk.tabs)]_vars

\* A handle opened with OPEN on a closed handle's file reads back two records
\* through a view it took.
C5_Witness ==
    /\ Returns("get")
    /\ ret.out.kind = "bytes"
    /\ ~in_transaction
    /\ \E t \in Tables : views[t] = "closed"
    /\ ViewLen(ret.args[1]) = RetInt(2)

\* What the four read operations give on the caller's view of table_name.
Observed(table_name) ==
    <<[k \in Keys |-> ViewContains(table_name, k)],
      [k \in Keys |-> ViewGet(table_name, k)],
      ViewLen(table_name),
      ViewKeys(table_name)>>

\* C6: a set or delete on one table changes no result of contains, get, length
\* or keys on a view of another table; so the same key keeps its own value in
\* each table.
C6_Isolation ==
    [][\A t \in Tables, u \in Tables :
        (ret'.call \in {"set", "delete"} /\ ret'.args[1] = t /\ u # t
            /\ views[u] # "none")
        => Observed(u)' = Observed(u)]_vars

\* Key "a" was set in t2 while t1 holds another value for "a".
C6_Witness ==
    /\ Returns("set")
    /\ ret.args[1] = "t2" /\ ret.args[2] = "a"
    /\ views["t1"] = "live"
    /\ ViewGet("t1", "a").kind = "bytes"
    /\ ViewGet("t1", "a") # ViewGet("t2", "a")

\* The mapping operations of a table view
ViewOps == {"contains", "len", "get", "set", "delete", "keys", "iter"}

\* C7: once the handle is closed none of its views is live, and every mapping
\* operation on a view of a closed connection raises and changes no data.
C7_ViewsFailAfterClose ==
    /\ [](handle # "open" => \A t \in Tables : views[t] # "live")
    /\ [][(ret'.call \in ViewOps /\ views[ret'.args[1]] # "live")
          => (ret'.out.exc # "" /\ disk' = disk /\ work' = work)]_vars

\* A set on a view of a closed handle has raised.
C7_Witness ==
    /\ ret.call = "set"
    /\ handle = "closed"
    /\ ret.out = Raised("ProgrammingError")

\* The operations of the handle
HandleOps == {"sync", "close", "table"}

\* C8 as stated: on a closed handle sync(), close() and handle[name] raise, and
\* so do the view operations.
C8_Original ==
    [][/\ (handle = "closed" /\ ret'.call \in HandleOps) => ret'.out.exc # ""
       /\ (handle = "closed" /\ ret'.call \in ViewOps) => ret'.out.exc # ""]_vars

\* C8 amended: on a closed handle handle[name] and the view operations raise;
\* sync() and close() return None and change nothing.
C8_AfterClose ==
    [][/\ (handle = "closed" /\ ret'.call = "table") => ret'.out.exc # ""
       /\ (handle = "closed" /\ ret'.call \in ViewOps) => ret'.out.exc # ""
       /\ (handle = "closed" /\ ret'.call \in {"sync", "close"})
          => /\ ret'.out = RetNone
             /\ UNCHANGED <<disk, handle, readonly, work, in_transaction, tables, views>>
      ]_vars

\* sync() has returned on a closed handle.
C8_Witness ==
    /\ Returns("sync")
    /\ handle = "closed"

\* C9: open with OPEN_CREATE_NEW returns a handle on an empty database whatever
\* the file held, and a table taken from a database that lacks it is empty:
\* contains is false and get gives None for every key.
C9_CreateNew ==
    [][/\ (ret'.call = "open" /\ ret'.args = <<OPEN_CREATE_NEW>>)
          => (Returns("open")' /\ work' = FileDb(NoFile) /\ FileDb(disk') = FileDb(NoFile))
       /\ \A t \in Tables :
            (Returns("table")' /\ ret'.args = <<t>> /\ t \notin DOMAIN work.tabs)
            => \A k \in Keys : /\ ViewContains(t, k)' = RetBool(FALSE)
                               /\ ViewGet(t, k)' = RetNone]_vars

\* OPEN_CREATE_NEW has opened the path on which a closed handle had a table.
C9_Witness ==
    /\ Returns("open")
    /\ ret.args = <<OPEN_CREATE_NEW>>
    /\ \E t \in Tables : views[t] = "closed"
    /\ work = FileDb(NoFile)

\* C10: open with OPEN_CREATE on an existing file leaves the file as it is and
\* starts from it, and taking a view of a table that exists changes no row.
C10_CreateKeeps ==
    [][/\ (ret'.call = "open" /\ ret'.args = <<OPEN_CREATE>> /\ disk.exists)
          => (Returns("open")' /\ disk' = disk /\ work' = FileDb(disk))
       /\ \A t \in Tables :
            (ret'.call = "table" /\ ret'.args = <<t>> /\ handle = "open"
                /\ t \in DOMAIN work.tabs)
            => (Returns("table")' /\ work'.tabs = work.tabs /\ disk'.tabs = disk.tabs)]_vars

\* OPEN_CREATE has opened a file that holds a record.
C10_Witness ==
    /\ Returns("open")
    /\ ret.args = <<OPEN_CREATE>>
    /\ \E t \in DOMAIN work.tabs : work.tabs[t] # {}

\* C11: on every live view, length() is the number of keys that keys() and a
\* loop over the view give, no key is given twice, and the keys given are those
\* for which contains is true; a keys() or a loop that returned gave that list.
C11_LengthCountsKeys ==
    /\ \A t \in Tables : views[t] = "live" =>
          /\ ViewKeys(t) = ViewIter(t)
          /\ \A k \in DOMAIN ViewKeys(t).keys : ViewKeys(t).keys[k] = 1
          /\ ViewLen(t) = RetInt(Cardinality(DOMAIN ViewKeys(t).keys))
          /\ DOMAIN ViewIter(t).keys = {k \in Keys : ViewContains(t, k) = RetBool(TRUE)}
    /\ (Returns("keys") \/ Returns("iter")) => ret.out = ViewKeys(ret.args[1])

\* A loop over a view that holds two keys has run to its end.
C11_Witness ==
    /\ Returns("iter")
    /\ views[ret.args[1]] = "live"
    /\ Cardinality(DOMAIN ret.out.keys) = 2
    /\ ViewLen(ret.args[1]) = RetInt(2)

\* C12: sync() on an open handle makes the file hold every table as the
\* connection has it, whichever views wrote, so that a handle opened next on
\* the path starts from it; the handle stays open and its views stay live.
C12_SyncCommitsAll ==
    [][(ret'.call = "sync" /\ handle = "open")
        => /\ Returns("sync")'
           /\ FileDb(disk') = work
           /\ work' = work
           /\ ~in_transaction'
           /\ handle' = "open"
           /\ views' = views
           /\ \A t \in Tables : views[t] = "live" => Observed(t)' = Observed(t)]_vars

\* sync() has returned with writes of two views in the file.
C12_Witness ==
    /\ Returns("sync")
    /\ handle = "open"
    /\ \A t \in Tables : /\ views[t] = "live"
                          /\ t \in DOMAIN disk.tabs
                          /\ disk.tabs[t] # {}

\* C13: a with-block over a handle is entered only on a handle whose open
\* succeeded, and whichever way control leaves it, the handle is closed then:
\* if it was still open, __exit__ does what close() does, once; if the caller
\* had closed it inside the block, the file, the views and the connection are
\* left as that close left them.
C13_ScopedClose ==
    /\ [](scope = "with" => handle # "absent")
    /\ [][\A exc \in BlockExits :
            (ret'.call = "__exit__" /\ ret'.args = <<exc>>)
            => /\ handle' = "closed"
               /\ scope' = "none"
               /\ handle = "open" =>
                    /\ disk' = close_commit(disk, work)
                    /\ views' = CloseViews(views)
                    /\ ~in_transaction'
               /\ handle = "closed" => UNCHANGED <<disk, work, views, in_transaction>>]_vars

\* Control has run off the end of a with-block in which views were taken.
C13_Witness ==
    /\ ret.call = "__exit__"
    /\ ret.args = <<"">>
    /\ handle = "closed"
    /\ scope = "none"
    /\ \E t \in Tables : views[t] = "closed"

\* C14: a handle opened with OPEN_READ_ONLY has a read-only connection for as
\* long as it is open, and on it set, delete and taking a view of a table that
\* does not exist raise and leave the file and the connection's contents as
\* they were.
C14_ReadOnlyRefuses ==
    [][/\ (Returns("open")' /\ ret'.args = <<OPEN_READ_ONLY>>) => readonly'
       /\ (handle = "open" /\ handle' = "open") => readonly' = readonly
       /\ (readonly /\ handle = "open" /\ ret'.call \in {"set", "delete"}
              /\ views[ret'.args[1]] = "live")
          => (ret'.out.exc # "" /\ disk' = disk /\ work' = work)
       /\ (readonly /\ handle = "open" /\ ret'.call = "table"
              /\ ret'.args[1] \notin DOMAIN work.tabs)
          => (ret'.out.exc # "" /\ disk' = disk /\ work' = work /\ views' = views)]_vars

\* A delete through a live view of a read-only handle has raised.
C14_Witness ==
    /\ ret.call = "delete"
    /\ ret.out.exc = "OperationalError"
    /\ readonly
    /\ handle = "open"
    /\ views[ret.args[1]] = "live"
    /\ disk.tabs[ret.args[1]] # {}

\* C15: handle.table(name) on an open handle that already gave a view of name
\* returns a view again, changes no row and nothing in the file, and what is
\* read through the view of name -- writes made through the first view and
\* not yet committed included -- is the same after it as before.  A view is
\* its connection and its table name and holds nothing else, so the two views
\* read and write the same rows.
C15_TableTwice ==
    [][\A t \in Tables :
         (ret'.call = "table" /\ ret'.args = <<t>> /\ handle = "open"
             /\ views[t] = "live")
         => /\ Returns("table")'
            /\ work' = work
            /\ disk' = disk
            /\ views' = views
            /\ Observed(t)' = Observed(t)]_vars

\* A second view of a table was taken while a record written through the
\* first was still uncommitted.
C15_Witness ==
    /\ Returns("table")
    /\ handle = "open"
    /\ in_transaction
    /\ ret.args[1] \notin DOMAIN disk.tabs
    /\ work.tabs[ret.args[1]] # {}

\* C16 as the specification states it: whenever control is with the caller no
\* cursor taken by cursor(db) is open.
C16_Original == cursors = 0

\* C16: contains, length, get, set, delete, keys and a loop run to its end
\* close the cursor they took before they return or raise; the one cursor that
\* stays open while control is with the caller is that of a generator of
\* __iter__ suspended at its yield, which is closed when the generator ends,
\* raises or is dropped.
C16_CursorsReleased == cursors = (IF gen.state = "suspended" THEN 1 ELSE 0)

\* A set has raised on a read-only handle while a generator was suspended:
\* the cursor of the set is closed, that of the generator open.
C16_Witness ==
    /\ ret.call = "set"
    /\ ret.out.exc = "OperationalError"
    /\ gen.state = "suspended"
    /\ gen.conn = "live"
    /\ cursors = 1

\* C17 as the specification states it: the handle's cache of views is empty
\* after open, holds the name of every table a view was returned for, and is
\* empty once the handle is closed.
C17_ViewCache ==
    /\ Returns("open") => tables = {}
    /\ Returns("table") => ret.args[1] \in tables
    /\ handle = "closed" => tables = {}

\* The records of each table of a file; a table that is not there has none.
RowsOf(f) == [t \in Tables |-> IF t \in DOMAIN f.tabs THEN f.tabs[t] ELSE {}]

\* C18: a set or delete step leaves the file as it is; while a handle is open
\* the records in the file change only in a step of its sync() or close(); and
\* when an open handle is abandoned the file stays as it is and the pending
\* writes are gone.
C18_WritesArePending ==
    [][/\ ret'.call \in {"set", "delete"} => disk' = disk
       /\ (handle = "open" /\ RowsOf(disk') # RowsOf(disk))
          => ret'.call \in {"sync", "close"}
       /\ ret'.call = "exit" => (disk' = disk /\ work' = FileDb(disk))]_vars

\* A set has returned and the file does not hold what was set.
C18_Witness ==
    /\ Returns("set")
    /\ in_transaction
    /\ ViewGet(ret.args[1], ret.args[2]) = RetBytes(ret.args[3])
    /\ Absent(disk, ret.args[1], ret.args[2])

\* C19: when a with-block over an open handle is left by an exception,
\* __exit__ commits all the connection holds -- every set and delete made in
\* the block -- closes the handle, and the exception goes on to the caller.
C19_ExitCommitsOnError ==
    [][\A exc \in BlockExits \ {""} :
         (ret'.call = "__exit__" /\ ret'.args = <<exc>> /\ handle = "open")
         => /\ FileDb(disk') = work
            /\ work' = work
            /\ handle' = "closed"
            /\ ret'.out = Raised(exc)]_vars

\* An exception has left a with-block in which a record was set and not
\* synced: the file holds the record and the exception is with the caller.
C19_Witness ==
    /\ ret.call = "__exit__"
    /\ ret.out = Raised("ValueError")
    /\ handle = "closed"
    /\ \E t \in DOMAIN disk.tabs : disk.tabs[t] # {}

\* C20: a set or delete of key k that returns leaves, for every other key of
\* the table, contains and get as they were; and contains, get, length, keys
\* and a loop over a view change no record, neither pending nor in the file.
C20_OtherKeysKept ==
    [][/\ \A t \in Tables, k \in Keys :
            ((Returns("set")' \/ Returns("delete")') /\ ret'.args[1] = t
                /\ ret'.args[2] # k /\ views[t] = "live")
            => /\ ViewContains(t, k)' = ViewContains(t, k)
               /\ ViewGet(t, k)' = ViewGet(t, k)
       /\ ret'.call \in {"contains", "get", "len", "keys", "iter"}
          => (work' = work /\ disk' = disk)]_vars

\* A set of one key has returned on a table that holds another key.
C20_Witness ==
    /\ Returns("set")
    /\ \E k \in Keys : /\ k # ret.args[2]
                       /\ ViewContains(ret.args[1], k) = RetBool(TRUE)

====
